---- MODULE Spec2Model ----
(***************************************************************************)
(* Model of src/value/borrowed.rs of simd-json: the borrowed DOM builder   *)
(* (parse_value_borrowed_root, parse_value_borrowed, parse_array_borrowed, *)
(* parse_map_borrowed), the small-string scanner parse_small_str_ with the *)
(* inline SmallString buffer, and the Value accessors kind and as_string.  *)
(***************************************************************************)
EXTENDS Integers, Sequences, FiniteSets, TLC

VARIABLES
    \* --- small-string scanner (string path of parse_value_borrowed*) ---
    src,        \* the input window input[iidx+1 ..], 64 bytes (two 32-byte lanes)
    count,      \* what count_elements() reports for the string token
    spc,        \* position in the string path
    res,        \* the SmallString under construction: [data, len]
    writes,     \* indices of res.data written through get_unchecked_mut
    clobbered,  \* what the write past the end of res.data landed on
    sresult,    \* the Value the string path returned
    \* --- the recursive-descent builder ---
    doc,        \* the structural tokens of the input, in order
    strSrc,     \* the bytes after the opening quote of the input's string values
    idx,        \* the cursor: index of the current structural token (0: before the first)
    stack,      \* the open parse_array_borrowed / parse_map_borrowed calls
    bpc,        \* what the builder does next: "value", "key" or "ret"
    ret,        \* the Result the last finished call returned
    retInfo,    \* which value that call built: its first token, count, skips, builds
    visited,    \* per token, how often next_ or skip moved the cursor onto it
    leafCalls,  \* calls of parse_str_/parse_small_str_/parse_short_str_/parse_number_ so far
    nvalues,    \* calls of parse_value_borrowed(_root) so far
    fail,       \* the first failure: the error and the counters when it happened
    \* --- dispatch table of the two entry points ---
    dbyte,      \* the byte next_() returned
    droot,      \* where parse_value_borrowed_root routes it
    dnested,    \* where parse_value_borrowed routes it
    \* --- accessors ---
    av,         \* a Value
    akind,      \* kind(av)
    astring     \* as_string(av)

svars == <<src, count, spc, res, writes, clobbered, sresult>>
bvars == <<doc, strSrc, idx, stack, bpc, ret, retInfo, visited, leafCalls, nvalues, fail>>
dvars == <<dbyte, droot, dnested>>
avars == <<av, akind, astring>>

vars == <<svars, bvars, dvars, avars>>

(***************************************************************************)
(* Program constants                                                       *)
(***************************************************************************)
SMALL_STR_LEN == 54
LaneWidth == 32
Phase2MaxDist == 22
QUOTE == 34
BACKSLASH == 92
Uninit == 256

WindowLen == 2 * LaneWidth
DataIdx == 0 .. (SMALL_STR_LEN - 1)
WinIdx == 0 .. (WindowLen - 1)

(***************************************************************************)
(* Bounds of the model                                                     *)
(***************************************************************************)
MaxGap == 2

(***************************************************************************)
(* Helpers                                                                 *)
(***************************************************************************)
MinOf(S) == CHOOSE x \in S : \A y \in S : x <= y

\* A u32 bit mask is the set of the positions of its 1 bits.
MoveMask(s, base, b) == {i \in 0 .. (LaneWidth - 1) : s[base + i] = b}

WrappingSub1(bits) ==
    IF bits = {} THEN 0 .. (LaneWidth - 1)
    ELSE (bits \ {MinOf(bits)}) \cup (0 .. (MinOf(bits) - 1))

BitAnd(a, b) == a \cap b

trailingzeroes(bits) == IF bits = {} THEN 64 ELSE MinOf(bits)

(***************************************************************************)
(* Input windows: bytes after the opening quote.  Quotes and backslashes   *)
(* at chosen positions, other bytes position-dependent filler.             *)
(***************************************************************************)
Fill(i) == 97 + (i % 7)

PosSets ==
    {{}} \cup {{p} : p \in WinIdx}
         \cup {{p, p + g} \cap WinIdx : p \in WinIdx, g \in 1 .. MaxGap}

Win(qs, bs) ==
    [i \in WinIdx |-> IF i \in qs THEN QUOTE
                      ELSE IF i \in bs THEN BACKSLASH ELSE Fill(i)]

Windows == {Win(qs, bs) : qs \in PosSets, bs \in PosSets}

FirstAt(s, b) ==
    IF \E i \in WinIdx : s[i] = b
    THEN MinOf({i \in WinIdx : s[i] = b}) ELSE WindowLen

\* count_elements() for a string token: content length plus the two quotes,
\* or a count that just passes the gate.
StrCounts(s) == {FirstAt(s, QUOTE) + 2, SMALL_STR_LEN + 2}

(***************************************************************************)
(* SmallString                                                             *)
(***************************************************************************)
NewSmallString == [len |-> 0, data |-> [i \in DataIdx |-> Uninit]]

as_bytes(ss) == [i \in 1 .. ss.len |-> ss.data[i - 1]]

\* Variant of CopyRange: the source slice starts one byte late.
CopyRangeShifted(ss, s, range) ==
    [ss EXCEPT !.data = [i \in DataIdx |-> IF i \in range THEN s[i + 1] ELSE @[i]]]

\* clone_from_slice into res.data.get_unchecked_mut(range): the part of the
\* range inside the array lands in data.
CopyRange(ss, s, range) ==
    [ss EXCEPT !.data = [i \in DataIdx |-> IF i \in range THEN s[i] ELSE @[i]]]

Phase1Range == 0 .. (LaneWidth - 1)

\* Variant of Phase2Range: the lane-relative bound 22 used as the end index.
Phase2RangeRelative == LaneWidth .. Phase2MaxDist

Phase2Range == LaneWidth .. SMALL_STR_LEN

\* Variant of QuoteBeforeBackslash: any quote in the lane, backslashes not looked at.
QuoteAnywhere(bs_bits, quote_bits) == quote_bits # {}

QuoteBeforeBackslash(bs_bits, quote_bits) ==
    BitAnd(WrappingSub1(bs_bits), quote_bits) # {}

NoBackslashBeforeQuote(bs_bits, quote_bits) ==
    BitAnd(WrappingSub1(quote_bits), bs_bits) = {}

\* Variant of Phase2Fits: one byte more.
Phase2FitsLoose(quote_dist) == quote_dist <= Phase2MaxDist + 1

Phase2Fits(quote_dist) == quote_dist <= Phase2MaxDist

\* One run of parse_small_str_ on window s: the struct it leaves, the indices
\* it wrote, and whether it returned a SmallString or went on to parse_str_.
\* The phase-2 copy over 32..=SMALL_STR_LEN writes one byte past data: the
\* byte lands on the len field (data laid out before len) or on a byte next
\* to the struct; both outcomes are kept.
Phase2Outcome(res1, s, landed) ==
    LET res2 == CopyRange(res1, s, Phase2Range)
        past == Phase2Range \ DataIdx
        res3 == IF landed = "len" THEN [res2 EXCEPT !.len = s[MinOf(past)]] ELSE res2
        bs_bits == MoveMask(s, LaneWidth, BACKSLASH)
        quote_bits == MoveMask(s, LaneWidth, QUOTE)
        quote_dist == trailingzeroes(quote_bits)
        hit == QuoteBeforeBackslash(bs_bits, quote_bits) /\ Phase2Fits(quote_dist)
    IN [res |-> IF hit THEN [res3 EXCEPT !.len = quote_dist + LaneWidth] ELSE res3,
        writes |-> Phase1Range \cup Phase2Range,
        clobbered |-> landed,
        ret |-> IF hit THEN "SmallString" ELSE "parse_str"]

SmallStrOutcomes(s) ==
    LET res1 == CopyRange(NewSmallString, s, Phase1Range)
        bs_bits == MoveMask(s, 0, BACKSLASH)
        quote_bits == MoveMask(s, 0, QUOTE)
    IN IF QuoteBeforeBackslash(bs_bits, quote_bits)
       THEN {[res |-> [res1 EXCEPT !.len = trailingzeroes(quote_bits)],
              writes |-> Phase1Range, clobbered |-> "none", ret |-> "SmallString"]}
       ELSE IF NoBackslashBeforeQuote(bs_bits, quote_bits)
       THEN {Phase2Outcome(res1, s, landed) :
                landed \in (IF Phase2Range \subseteq DataIdx
                            THEN {"none"} ELSE {"len", "adjacent"})}
       ELSE {[res |-> res1, writes |-> Phase1Range, clobbered |-> "none",
              ret |-> "parse_str"]}

\* The count gate of the string arm of parse_value_borrowed(_root)
SmallStrGate(cnt) == cnt <= SMALL_STR_LEN + 2

SIdle ==
    /\ src = <<>> /\ count = 0 /\ spc = "off" /\ res = <<>>
    /\ writes = {} /\ clobbered = "none" /\ sresult = [t |-> "None"]

SInit ==
    /\ src \in Windows
    /\ count \in StrCounts(src)
    /\ spc = "start"
    /\ res = NewSmallString
    /\ writes = {}
    /\ clobbered = "none"
    /\ sresult = [t |-> "None"]

\* b'"' arm: if self.count_elements() <= SMALL_STR_LEN + 2 { parse_small_str_ } else parse_str_
StringDispatch ==
    /\ spc = "start"
    /\ spc' = IF SmallStrGate(count) THEN "small" ELSE "parse_str"
    /\ UNCHANGED <<src, count, res, writes, clobbered, sresult>>
    /\ UNCHANGED <<bvars, dvars, avars>>

parse_small_str_ ==
    /\ spc = "small"
    /\ \E o \in SmallStrOutcomes(src) :
         /\ res' = o.res
         /\ writes' = o.writes
         /\ clobbered' = o.clobbered
         /\ IF o.ret = "SmallString"
            THEN /\ sresult' = [t |-> "SmallString", s |-> o.res]
                 /\ spc' = "done"
            ELSE /\ sresult' = sresult
                 /\ spc' = "parse_str"
    /\ UNCHANGED <<src, count>>
    /\ UNCHANGED <<bvars, dvars, avars>>

\* the general string parser parse_str_ (external): a String or an error
parse_str_ ==
    /\ spc = "parse_str"
    /\ \E ok \in BOOLEAN :
         sresult' = IF ok THEN [t |-> "String"] ELSE [t |-> "Err"]
    /\ spc' = "done"
    /\ UNCHANGED <<src, count, res, writes, clobbered>>
    /\ UNCHANGED <<bvars, dvars, avars>>


SNext == StringDispatch \/ parse_small_str_ \/ parse_str_

(***************************************************************************)
(* Dispatch of the two entry points on the byte next_() returns            *)
(***************************************************************************)
Route(h, m) == [h |-> h, minus |-> m]

\* match self.next_() of parse_value_borrowed_root
parse_value_borrowed_root(b) ==
    IF b = QUOTE THEN Route("string", FALSE)
    ELSE IF b = 45 THEN Route("parse_number_root", TRUE)
    ELSE IF b \in 48 .. 57 THEN Route("parse_number_root", FALSE)
    ELSE IF b = 110 THEN Route("Null", FALSE)
    ELSE IF b = 116 THEN Route("BoolTrue", FALSE)
    ELSE IF b = 102 THEN Route("BoolFalse", FALSE)
    ELSE IF b = 91 THEN Route("parse_array_borrowed", FALSE)
    ELSE IF b = 123 THEN Route("parse_map_borrowed", FALSE)
    ELSE Route("UnexpectedCharacter", FALSE)

\* Variant of parse_value_borrowed: the digit arm as b'1'..=b'9'.
parse_value_borrowed_no_zero(b) ==
    IF b = QUOTE THEN Route("string", FALSE)
    ELSE IF b = 45 THEN Route("parse_number_", TRUE)
    ELSE IF b \in 49 .. 57 THEN Route("parse_number_", FALSE)
    ELSE IF b = 110 THEN Route("Null", FALSE)
    ELSE IF b = 116 THEN Route("BoolTrue", FALSE)
    ELSE IF b = 102 THEN Route("BoolFalse", FALSE)
    ELSE IF b = 91 THEN Route("parse_array_borrowed", FALSE)
    ELSE IF b = 123 THEN Route("parse_map_borrowed", FALSE)
    ELSE Route("UnexpectedCharacter", FALSE)

\* match self.next_() of parse_value_borrowed
parse_value_borrowed(b) ==
    IF b = QUOTE THEN Route("string", FALSE)
    ELSE IF b = 45 THEN Route("parse_number_", TRUE)
    ELSE IF b \in 48 .. 57 THEN Route("parse_number_", FALSE)
    ELSE IF b = 110 THEN Route("Null", FALSE)
    ELSE IF b = 116 THEN Route("BoolTrue", FALSE)
    ELSE IF b = 102 THEN Route("BoolFalse", FALSE)
    ELSE IF b = 91 THEN Route("parse_array_borrowed", FALSE)
    ELSE IF b = 123 THEN Route("parse_map_borrowed", FALSE)
    ELSE Route("UnexpectedCharacter", FALSE)

DIdle == dbyte = 0 /\ droot = Route("off", FALSE) /\ dnested = Route("off", FALSE)

DInit ==
    /\ dbyte \in 0 .. 255
    /\ droot = Route("none", FALSE)
    /\ dnested = Route("none", FALSE)

Dispatch ==
    /\ droot.h = "none"
    /\ droot' = parse_value_borrowed_root(dbyte)
    /\ dnested' = parse_value_borrowed(dbyte)
    /\ UNCHANGED <<dbyte, svars, bvars, avars>>

(***************************************************************************)
(* Value and its accessors                                                 *)
(***************************************************************************)
VNull == [t |-> "Null"]
VBool(b) == [t |-> "Bool", b |-> b]
VNumber == [t |-> "Number"]
VString(text) == [t |-> "String", text |-> text]
VSmallString(ss) == [t |-> "SmallString", s |-> ss]
VArray(elems) == [t |-> "Array", elems |-> elems]
VObject(pairs) == [t |-> "Object", pairs |-> pairs]

kind(v) ==
    CASE v.t = "Null" -> "Null"
      [] v.t = "Bool" -> "Bool"
      [] v.t = "Number" -> "I64"
      [] v.t = "String" -> "String"
      [] v.t = "SmallString" -> "String"
      [] v.t = "Array" -> "Array"
      [] v.t = "Object" -> "Object"

None == [some |-> FALSE, text |-> <<>>]
Some(text) == [some |-> TRUE, text |-> text]

as_string(v) == IF v.t = "String" THEN Some(v.text) ELSE None

\* Values to_value can return: the scalars, short escape-free strings as the
\* scanner builds them, longer strings as parse_str_ returns them, containers.
ScannedSmallStrings ==
    {VSmallString(o.res) :
        o \in {x \in UNION {SmallStrOutcomes(Win({n}, {})) : n \in 0 .. SMALL_STR_LEN} :
                  x.ret = "SmallString"}}

LongStrings ==
    {VString([i \in 1 .. n |-> Fill(i)]) : n \in (SMALL_STR_LEN + 1) .. (WindowLen - 1)}

AccessValues ==
    {VNull, VBool(TRUE), VBool(FALSE), VNumber, VArray(<<>>), VArray(<<VNull>>),
     VObject(<<>>)} \cup ScannedSmallStrings \cup LongStrings

AIdle == av = VNull /\ akind = "off" /\ astring = None

AInit ==
    /\ av \in AccessValues
    /\ akind = "none"
    /\ astring = None

Access ==
    /\ akind = "none"
    /\ akind' = kind(av)
    /\ astring' = as_string(av)
    /\ UNCHANGED <<av, svars, bvars, dvars>>

(***************************************************************************)
(* The structural cursor: the tokens next_ and skip step over, and the     *)
(* element-count oracle count_elements                                      *)
(***************************************************************************)
MaxTokens == 11

Scalars == {"n", "1", "q", "x"}
Keys == {"ka", "kb"}
Opens == {"[", "{"}
Closes == {"]", "}"}

\* the input byte at a structural token
TokByte(tok) ==
    CASE tok = "[" -> 91 [] tok = "]" -> 93 [] tok = "{" -> 123 [] tok = "}" -> 125
      [] tok = "," -> 44 [] tok = ":" -> 58 [] tok = "n" -> 110 [] tok = "1" -> 49
      [] tok = "x" -> 120 [] OTHER -> QUOTE

\* well-formed token sequences of exactly k tokens: one value, a comma
\* separated list of values, a comma separated list of key : value members
RECURSIVE ValSeqs(_), ListSeqs(_), MemberSeqs(_)
ValSeqs(k) ==
    IF k < 1 THEN {}
    ELSE IF k = 1 THEN {<<s>> : s \in Scalars}
    ELSE IF k = 2 THEN {<<"[", "]">>, <<"{", "}">>}
    ELSE {<<"[">> \o l \o <<"]">> : l \in ListSeqs(k - 2)}
         \cup {<<"{">> \o m \o <<"}">> : m \in MemberSeqs(k - 2)}

ListSeqs(k) ==
    IF k < 1 THEN {}
    ELSE ValSeqs(k) \cup
         UNION {{v \o <<",">> \o l : v \in ValSeqs(j), l \in ListSeqs(k - j - 1)} :
                   j \in 1 .. (k - 2)}

MemberSeqs(k) ==
    IF k < 3 THEN {}
    ELSE {<<key, ":">> \o v : key \in Keys, v \in ValSeqs(k - 2)} \cup
         UNION {{<<key, ":">> \o v \o <<",">> \o m :
                    key \in Keys, v \in ValSeqs(j), m \in MemberSeqs(k - j - 3)} :
                   j \in 1 .. (k - 6)}

Docs == UNION {ValSeqs(k) : k \in 1 .. MaxTokens}

\* index of the closing bracket matching the container open at depth 0
RECURSIVE MatchClose(_, _, _)
MatchClose(d, j, depth) ==
    IF d[j] \in Closes
    THEN IF depth = 0 THEN j ELSE MatchClose(d, j + 1, depth - 1)
    ELSE IF d[j] \in Opens THEN MatchClose(d, j + 1, depth + 1)
    ELSE MatchClose(d, j + 1, depth)

\* the last token of the value whose first token is at p
ValueEnd(d, p) == IF d[p] \in Opens THEN MatchClose(d, p + 1, 0) ELSE p

RECURSIVE CountFrom(_, _, _, _)
CountFrom(d, j, depth, n) ==
    IF d[j] \in Closes
    THEN IF depth = 0 THEN n ELSE CountFrom(d, j + 1, depth - 1, n)
    ELSE IF d[j] \in Opens THEN CountFrom(d, j + 1, depth + 1, n)
    ELSE IF d[j] = "," /\ depth = 0 THEN CountFrom(d, j + 1, depth, n + 1)
    ELSE CountFrom(d, j + 1, depth, n)

\* count_elements() with the cursor on token p: the immediate children of a
\* container, the length with both quotes of a string
count_elements(d, s, p) ==
    IF d[p] \in Opens
    THEN IF d[p + 1] \in Closes THEN 0 ELSE CountFrom(d, p + 1, 0, 1)
    ELSE FirstAt(s, QUOTE) + 2

\* next_() and skip(): the cursor moves to the next structural token
Advance(v, i, n) == [p \in DOMAIN v |-> IF p \in (i + 1) .. (i + n) THEN v[p] + 1 ELSE v[p]]

\* the windows behind the string values of a document: a short escape-free
\* string, and one with an escape before its closing quote
BuilderWindows == {Win({2}, {}), Win({5}, {1})}

(***************************************************************************)
(* Results                                                                 *)
(***************************************************************************)
Ok(v) == [ok |-> TRUE, val |-> v, err |-> "none"]
Err(e) == [ok |-> FALSE, val |-> VNull, err |-> e]

ExternalText == <<>>

\* parse_str_(): the general string parser
ParseStrOutcomes == {Ok(VString(ExternalText)), Err("InvalidString")}

\* the string arm: the outcomes with the number of string-parser calls made
StringArm(cnt, s) ==
    IF SmallStrGate(cnt)
    THEN UNION {IF o.ret = "SmallString"
                THEN {[r |-> Ok(VSmallString(o.res)), leaf |-> 1]}
                ELSE {[r |-> x, leaf |-> 2] : x \in ParseStrOutcomes} :
                   o \in SmallStrOutcomes(s)}
    ELSE {[r |-> x, leaf |-> 1] : x \in ParseStrOutcomes}

\* the arms of the match that build no container
ScalarArm(route, cnt, s) ==
    CASE route.h = "string" -> StringArm(cnt, s)
      [] route.h \in {"parse_number_root", "parse_number_"} ->
            {[r |-> Ok(VNumber), leaf |-> 1], [r |-> Err("InvalidNumber"), leaf |-> 1]}
      [] route.h = "Null" -> {[r |-> Ok(VNull), leaf |-> 0]}
      [] route.h = "BoolTrue" -> {[r |-> Ok(VBool(TRUE)), leaf |-> 0]}
      [] route.h = "BoolFalse" -> {[r |-> Ok(VBool(FALSE)), leaf |-> 0]}
      [] OTHER -> {[r |-> Err("UnexpectedCharacter"), leaf |-> 0]}

\* Variant of IsErr: the error of a failed call is not looked at.
IgnoreErr(r) == FALSE

\* stry!: return the error of a failed call at once
IsErr(r) == ~r.ok

\* Variant of EmptyShortcut: no short cut for empty containers.
NoShortcut(es) == FALSE

\* if unlikely!(es == 0)
EmptyShortcut(es) == es = 0

\* Variant of LoopDone: the loop runs over 1..es.
LoopDoneEarly(i, es) == i + 1 >= es

\* for _ in 0..es, after i iterations
LoopDone(i, es) == i >= es

\* Map::with_capacity / insert_nocheck of the external map: vector backed it
\* appends without looking, hash backed it replaces the value of a key it holds
MapModes == {"vec", "map"}

insert_nocheck(pairs, mode, k, v) ==
    IF mode = "map" /\ \E j \in 1 .. Len(pairs) : pairs[j][1] = k
    THEN [j \in 1 .. Len(pairs) |-> IF pairs[j][1] = k THEN <<k, v>> ELSE pairs[j]]
    ELSE Append(pairs, <<k, v>>)

(***************************************************************************)
(* The builder                                                             *)
(***************************************************************************)
NoFail == [err |-> "none", idx |-> 0, leafCalls |-> 0, nvalues |-> 0, depth |-> 0]
Info(k, start, es, skips, builds, keys) ==
    [kind |-> k, start |-> start, es |-> es, skips |-> skips, builds |-> builds, keys |-> keys]
NoInfo == Info("none", 0, 0, 0, 0, <<>>)

Frame(fn, start, es, mode) ==
    [fn |-> fn, start |-> start, es |-> es, i |-> 0, res |-> <<>>, key |-> "", keys |-> <<>>,
     skips |-> 0, mode |-> mode]

Top == stack[Len(stack)]
Pop == SubSeq(stack, 1, Len(stack) - 1)
SetTop(f) == [stack EXCEPT ![Len(stack)] = f]

RouteOf(b) == IF stack = <<>> THEN parse_value_borrowed_root(b) ELSE parse_value_borrowed(b)

\* the first failure, with the counters as the failing call left them
Failed(r, i, l, n) ==
    IF fail = NoFail /\ ~r.ok
    THEN [err |-> r.err, idx |-> i, leafCalls |-> l, nvalues |-> n, depth |-> Len(stack)]
    ELSE fail

BIdle ==
    /\ doc = <<>> /\ strSrc = <<>> /\ idx = 0 /\ stack = <<>> /\ bpc = "off"
    /\ ret = Ok(VNull) /\ retInfo = NoInfo /\ visited = <<>>
    /\ leafCalls = 0 /\ nvalues = 0 /\ fail = NoFail

BInit ==
    /\ doc \in Docs
    /\ strSrc \in (IF \E p \in DOMAIN doc : doc[p] = "q"
                   THEN BuilderWindows ELSE {Win({2}, {})})
    /\ idx = 0
    /\ stack = <<>>
    /\ bpc = "value"
    /\ ret = Ok(VNull)
    /\ retInfo = NoInfo
    /\ visited = [p \in DOMAIN doc |-> 0]
    /\ leafCalls = 0
    /\ nvalues = 0
    /\ fail = NoFail

\* parse_value_borrowed(_root), the arms that return without building a container
ParseScalar ==
    /\ bpc = "value"
    /\ idx < Len(doc)
    /\ LET p == idx + 1
           route == RouteOf(TokByte(doc[p]))
       IN /\ route.h \notin {"parse_array_borrowed", "parse_map_borrowed"}
          /\ \E o \in ScalarArm(route, count_elements(doc, strSrc, p), strSrc) :
               /\ ret' = o.r
               /\ leafCalls' = leafCalls + o.leaf
               /\ fail' = Failed(o.r, p, leafCalls + o.leaf, nvalues + 1)
          /\ idx' = p
          /\ visited' = Advance(visited, idx, 1)
          /\ retInfo' = Info("scalar", p, 0, 0, 0, <<>>)
    /\ nvalues' = nvalues + 1
    /\ bpc' = "ret"
    /\ UNCHANGED <<doc, strSrc, stack, svars, dvars, avars>>

\* the b'[' arm and parse_array_borrowed up to its first element
parse_array_borrowed_enter ==
    /\ bpc = "value"
    /\ idx < Len(doc)
    /\ LET p == idx + 1
           es == count_elements(doc, strSrc, p)
       IN /\ RouteOf(TokByte(doc[p])).h = "parse_array_borrowed"
          /\ IF EmptyShortcut(es)
             THEN /\ idx' = p + 1
                  /\ visited' = Advance(visited, idx, 2)
                  /\ ret' = Ok(VArray(<<>>))
                  /\ retInfo' = Info("Array", p, es, 1, 0, <<>>)
                  /\ bpc' = "ret"
                  /\ stack' = stack
             ELSE IF LoopDone(0, es)
             THEN /\ idx' = p
                  /\ visited' = Advance(visited, idx, 1)
                  /\ ret' = Ok(VArray(<<>>))
                  /\ retInfo' = Info("Array", p, es, 0, 0, <<>>)
                  /\ bpc' = "ret"
                  /\ stack' = stack
             ELSE /\ idx' = p
                  /\ visited' = Advance(visited, idx, 1)
                  /\ stack' = Append(stack, Frame("array", p, es, "vec"))
                  /\ bpc' = "value"
                  /\ UNCHANGED <<ret, retInfo>>
    /\ nvalues' = nvalues + 1
    /\ UNCHANGED <<doc, strSrc, leafCalls, fail, svars, dvars, avars>>

\* parse_array_borrowed: res.push(stry!(self.parse_value_borrowed())); self.skip();
parse_array_borrowed_loop ==
    /\ bpc = "ret"
    /\ stack # <<>>
    /\ Top.fn = "array"
    /\ IF IsErr(ret)
       THEN /\ stack' = Pop
            /\ retInfo' = Info("Array", Top.start, Top.es, Top.skips, Top.i, <<>>)
            /\ UNCHANGED <<idx, visited, ret, bpc>>
       ELSE /\ idx < Len(doc)
            /\ idx' = idx + 1
            /\ visited' = Advance(visited, idx, 1)
            /\ LET f == [Top EXCEPT !.res = Append(@, ret.val), !.i = @ + 1,
                                    !.skips = @ + 1]
               IN IF LoopDone(f.i, f.es)
                  THEN /\ stack' = Pop
                       /\ ret' = Ok(VArray(f.res))
                       /\ retInfo' = Info("Array", f.start, f.es, f.skips, f.i, <<>>)
                       /\ bpc' = "ret"
                  ELSE /\ stack' = SetTop(f)
                       /\ bpc' = "value"
                       /\ UNCHANGED <<ret, retInfo>>
    /\ UNCHANGED <<doc, strSrc, leafCalls, nvalues, fail, svars, dvars, avars>>

\* the b'{' arm and parse_map_borrowed up to its loop
parse_map_borrowed_enter ==
    /\ bpc = "value"
    /\ idx < Len(doc)
    /\ LET p == idx + 1
           es == count_elements(doc, strSrc, p)
       IN /\ RouteOf(TokByte(doc[p])).h = "parse_map_borrowed"
          /\ IF EmptyShortcut(es)
             THEN /\ idx' = p + 1
                  /\ visited' = Advance(visited, idx, 2)
                  /\ ret' = Ok(VObject(<<>>))
                  /\ retInfo' = Info("Object", p, es, 1, 0, <<>>)
                  /\ bpc' = "ret"
                  /\ stack' = stack
             ELSE IF LoopDone(0, es)
             THEN /\ idx' = p
                  /\ visited' = Advance(visited, idx, 1)
                  /\ ret' = Ok(VObject(<<>>))
                  /\ retInfo' = Info("Object", p, es, 0, 0, <<>>)
                  /\ bpc' = "ret"
                  /\ stack' = stack
             ELSE /\ idx' = p
                  /\ visited' = Advance(visited, idx, 1)
                  /\ \E mode \in MapModes :
                        stack' = Append(stack, Frame("map", p, es, mode))
                  /\ bpc' = "key"
                  /\ UNCHANGED <<ret, retInfo>>
    /\ nvalues' = nvalues + 1
    /\ UNCHANGED <<doc, strSrc, leafCalls, fail, svars, dvars, avars>>

\* parse_map_borrowed: self.skip(); let key = stry!(self.parse_short_str_()); self.skip();
parse_map_borrowed_key ==
    /\ bpc = "key"
    /\ idx + 1 < Len(doc)
    /\ \E r \in {Ok(VString(<<doc[idx + 1]>>)), Err("InvalidKey")} :
         /\ leafCalls' = leafCalls + 1
         /\ IF IsErr(r)
            THEN /\ idx' = idx + 1
                 /\ visited' = Advance(visited, idx, 1)
                 /\ stack' = Pop
                 /\ ret' = r
                 /\ retInfo' = Info("Object", Top.start, Top.es, Top.skips + 1, Top.i, Top.keys)
                 /\ fail' = Failed(r, idx + 1, leafCalls + 1, nvalues)
                 /\ bpc' = "ret"
            ELSE /\ idx' = idx + 2
                 /\ visited' = Advance(visited, idx, 2)
                 /\ stack' = SetTop([Top EXCEPT !.key = doc[idx + 1],
                                                !.keys = Append(@, doc[idx + 1]),
                                                !.skips = @ + 2])
                 /\ bpc' = "value"
                 /\ UNCHANGED <<ret, retInfo, fail>>
    /\ UNCHANGED <<doc, strSrc, nvalues, svars, dvars, avars>>

\* parse_map_borrowed: res.insert_nocheck(key.into(), stry!(self.parse_value_borrowed())); self.skip();
parse_map_borrowed_value ==
    /\ bpc = "ret"
    /\ stack # <<>>
    /\ Top.fn = "map"
    /\ IF IsErr(ret)
       THEN /\ stack' = Pop
            /\ retInfo' = Info("Object", Top.start, Top.es, Top.skips, Top.i, Top.keys)
            /\ UNCHANGED <<idx, visited, ret, bpc>>
       ELSE /\ idx < Len(doc)
            /\ idx' = idx + 1
            /\ visited' = Advance(visited, idx, 1)
            /\ LET f == [Top EXCEPT !.res = insert_nocheck(@, Top.mode, Top.key, ret.val),
                                    !.i = @ + 1, !.skips = @ + 1]
               IN IF LoopDone(f.i, f.es)
                  THEN /\ stack' = Pop
                       /\ ret' = Ok(VObject(f.res))
                       /\ retInfo' = Info("Object", f.start, f.es, f.skips, f.i, f.keys)
                       /\ bpc' = "ret"
                  ELSE /\ stack' = SetTop(f)
                       /\ bpc' = "key"
                       /\ UNCHANGED <<ret, retInfo>>
    /\ UNCHANGED <<doc, strSrc, leafCalls, nvalues, fail, svars, dvars, avars>>

BNext == ParseScalar \/ parse_array_borrowed_enter \/ parse_array_borrowed_loop \/ parse_map_borrowed_enter \/ parse_map_borrowed_key \/ parse_map_borrowed_value

(***************************************************************************)
(* Specifications                                                          *)
(***************************************************************************)
InitStr == SInit /\ BIdle /\ DIdle /\ AIdle
SpecStr == InitStr /\ [][SNext]_vars

InitBuild == BInit /\ SIdle /\ DIdle /\ AIdle
SpecBuild == InitBuild /\ [][BNext]_vars

InitDispatch == DInit /\ SIdle /\ BIdle /\ AIdle
SpecDispatch == InitDispatch /\ [][Dispatch]_vars

InitAccess == AInit /\ SIdle /\ BIdle /\ DIdle
SpecAccess == InitAccess /\ [][Access]_vars

(***************************************************************************)
(* Properties of the small-string scanner (SpecStr)                        *)
(***************************************************************************)
ScannerRan == writes # {}

\* the window holds n content bytes without quote or backslash, then a quote
EscapeFree(n) == FirstAt(src, QUOTE) = n /\ FirstAt(src, BACKSLASH) > n

IsSmall == sresult.t = "SmallString"

FromParseStr == sresult.t \in {"String", "Err"}

\* C1: for every escape-free S of 1..54 bytes followed by a closing quote,
\* parse_small_str_ returns a SmallString with len = |S| whose as_bytes() is S.
C1_RoundTrip ==
    LET n == FirstAt(src, QUOTE)
    IN (ScannerRan /\ n \in 1 .. SMALL_STR_LEN /\ EscapeFree(n)) =>
            /\ IsSmall
            /\ sresult.s.len = n
            /\ as_bytes(sresult.s) = [i \in 1 .. n |-> src[i - 1]]

C1_Witness ==
    /\ spc = "done" /\ IsSmall /\ EscapeFree(40)
    /\ as_bytes(sresult.s) = [i \in 1 .. 40 |-> src[i - 1]]

\* C2: 54 escape-free content bytes with count 56 give a SmallString of length
\* 54; 55 or more escape-free content bytes never give a SmallString and end in
\* parse_str_, whether the count gate or the phase-2 check rejects them.
C2_Boundary ==
    spc = "done" =>
        /\ (EscapeFree(SMALL_STR_LEN) /\ count = SMALL_STR_LEN + 2) =>
                (IsSmall /\ sresult.s.len = SMALL_STR_LEN)
        /\ (FirstAt(src, QUOTE) > SMALL_STR_LEN
              /\ FirstAt(src, BACKSLASH) >= FirstAt(src, QUOTE)) => FromParseStr

C2_Witness ==
    /\ spc = "done" /\ EscapeFree(SMALL_STR_LEN + 1) /\ count = SMALL_STR_LEN + 2
    /\ ScannerRan /\ sresult.t = "String"

\* C3: a backslash before the first quote never gives a SmallString, the
\* result is parse_str_'s; a SmallString returned has no quote or backslash
\* below index len and a quote at index len.
C3_EscapeForcesFallback ==
    /\ (spc = "done" /\ FirstAt(src, BACKSLASH) < FirstAt(src, QUOTE)) => FromParseStr
    /\ IsSmall =>
        /\ \A i \in 0 .. (sresult.s.len - 1) : src[i] \notin {QUOTE, BACKSLASH}
        /\ src[sresult.s.len] = QUOTE

C3_Witness ==
    /\ spc = "done" /\ sresult.t = "String" /\ Phase2Range \subseteq writes
    /\ FirstAt(src, BACKSLASH) = 35 /\ FirstAt(src, QUOTE) = 37

\* C8: a SmallString returned has len <= 54 and every index below len was
\* copied from the input: phase 1 gives len <= 31 with 0..31 copied, phase 2
\* gives 32 <= len <= 54 with 0..53 copied.
C8_InitialisedPrefix ==
    IsSmall =>
        /\ sresult.s.len <= SMALL_STR_LEN
        /\ \A i \in 0 .. (sresult.s.len - 1) : i \in writes /\ sresult.s.data[i] # Uninit
        /\ IF FirstAt(src, QUOTE) < LaneWidth
           THEN sresult.s.len < LaneWidth /\ Phase1Range \subseteq writes
           ELSE sresult.s.len >= LaneWidth /\ DataIdx \subseteq writes

C8_Witness ==
    /\ IsSmall /\ sresult.s.len = SMALL_STR_LEN
    /\ sresult.s.data[SMALL_STR_LEN - 1] = src[SMALL_STR_LEN - 1]

\* C9: every write into the inline buffer targets an index in 0..53.
C9_WritesInBounds == writes \subseteq DataIdx

(***************************************************************************)
(* Properties of the dispatch (SpecDispatch)                               *)
(***************************************************************************)
Routed(r, b, numparser) ==
    /\ b = 34 => r = Route("string", FALSE)
    /\ b = 45 => r = Route(numparser, TRUE)
    /\ b \in 48 .. 57 => r = Route(numparser, FALSE)
    /\ b = 110 => r = Route("Null", FALSE)
    /\ b = 116 => r = Route("BoolTrue", FALSE)
    /\ b = 102 => r = Route("BoolFalse", FALSE)
    /\ b = 91 => r = Route("parse_array_borrowed", FALSE)
    /\ b = 123 => r = Route("parse_map_borrowed", FALSE)
    /\ b \notin ({34, 45, 110, 116, 102, 91, 123} \cup (48 .. 57)) =>
            r = Route("UnexpectedCharacter", FALSE)

\* C6: both entry points route '"', '-', '0'..'9', 'n', 't', 'f', '[', '{' to
\* their handlers and every other byte to UnexpectedCharacter, and differ only
\* in the number parser they call.
C6_DispatchComplete ==
    droot.h # "none" =>
        /\ Routed(droot, dbyte, "parse_number_root")
        /\ Routed(dnested, dbyte, "parse_number_")
        /\ droot.minus = dnested.minus
        /\ \/ droot.h = dnested.h
           \/ droot.h = "parse_number_root" /\ dnested.h = "parse_number_"

C6_Witness == dbyte = 48 /\ droot.h = "parse_number_root" /\ dnested.h = "parse_number_"

(***************************************************************************)
(* Properties of the accessors (SpecAccess)                                *)
(***************************************************************************)
TextOf(v) == IF v.t = "SmallString" THEN as_bytes(v.s) ELSE v.text

\* C10: as_string(v) is the text of v exactly when kind(v) is String, for the
\* String and the SmallString variant, and absent otherwise.
C10_AsStringMatchesKind ==
    akind # "none" =>
        /\ astring.some <=> akind = "String"
        /\ akind = "String" => astring.text = TextOf(av)

(***************************************************************************)
(* Properties of the builder (SpecBuild)                                   *)
(***************************************************************************)
Returned == bpc = "ret" /\ ret.ok

Size(v) == IF v.t = "Array" THEN Len(v.elems) ELSE Len(v.pairs)

RangeOf(s) == {s[i] : i \in DOMAIN s}

\* C4 as stated: an Array or Object returned Ok holds exactly the n elements
\* count_elements() reported, repeated keys included.
C4_CountFidelity ==
    (Returned /\ retInfo.kind \in {"Array", "Object"}) => Size(ret.val) = retInfo.es

\* C4 amended: an Array returned Ok holds exactly n elements; an Object
\* returned Ok was built from n keys and holds exactly n entries when the keys
\* are pairwise distinct, and otherwise at most n and at least one per
\* distinct key.
C4_CountFidelityDistinctKeys ==
    Returned =>
        /\ retInfo.kind = "Array" => Len(ret.val.elems) = retInfo.es
        /\ retInfo.kind = "Object" =>
            /\ Len(retInfo.keys) = retInfo.es
            /\ Cardinality(RangeOf(retInfo.keys)) = retInfo.es =>
                    Len(ret.val.pairs) = retInfo.es
            /\ Len(ret.val.pairs) <= retInfo.es
            /\ Len(ret.val.pairs) >= Cardinality(RangeOf(retInfo.keys))

C4_Witness ==
    /\ Returned /\ retInfo.kind = "Object" /\ retInfo.es = 2
    /\ retInfo.keys = <<"ka", "kb">> /\ Len(ret.val.pairs) = 2

\* C5: a value built Ok leaves the cursor on the value's last token, with each
\* of its tokens visited once and no later token visited; an array of n >= 1
\* elements makes n skips, an object 3n, an empty container one skip and no
\* element build.
C5_CursorExact ==
    /\ \A p \in DOMAIN visited : visited[p] <= 1
    /\ Returned =>
        /\ idx = ValueEnd(doc, retInfo.start)
        /\ \A p \in retInfo.start .. idx : visited[p] = 1
        /\ \A p \in (idx + 1) .. Len(doc) : visited[p] = 0
        /\ retInfo.kind = "Array" =>
            /\ retInfo.skips = IF retInfo.es = 0 THEN 1 ELSE retInfo.es
            /\ retInfo.builds = retInfo.es
        /\ retInfo.kind = "Object" =>
            /\ retInfo.skips = IF retInfo.es = 0 THEN 1 ELSE 3 * retInfo.es
            /\ retInfo.builds = retInfo.es

C5_Witness ==
    /\ Returned /\ stack = <<>> /\ retInfo.kind = "Object" /\ retInfo.es = 1
    /\ idx = Len(doc) /\ ret.val.pairs[1][2].t = "Array" /\ Size(ret.val.pairs[1][2]) = 2

\* C7: after the first failing call no leaf parser is called, no value is
\* built and the cursor does not move; every enclosing construction returns
\* that error, which is the top-level result.
C7_FailFast ==
    fail # NoFail =>
        /\ idx = fail.idx
        /\ leafCalls = fail.leafCalls
        /\ nvalues = fail.nvalues
        /\ bpc = "ret"
        /\ ret = Err(fail.err)
        /\ Len(stack) <= fail.depth
        /\ stack # <<>> => ENABLED (parse_array_borrowed_loop \/ parse_map_borrowed_value)

C7_Witness ==
    /\ fail # NoFail /\ fail.depth >= 2 /\ stack = <<>> /\ fail.idx < Len(doc)
    /\ ret = Err(fail.err)

====
